---- MODULE Spec2Model ----
(***************************************************************************)
(* A model of serial_comm.py: the module-level registry of open serial     *)
(* connections (_connections) with initialize_port / close_port /          *)
(* close_all_ports / is_port_open, and the send-then-frame request         *)
(* (send_data and _send_and_receive_bytes, reached through                 *)
(* send_and_receive_hex).                                                  *)
(*                                                                         *)
(* Time is an integer number of milliseconds, so that the poll sleep       *)
(* time.sleep(0.001) is one unit.  Only differences of clock readings are  *)
(* used by the code, and none is taken before send_data has returned, so   *)
(* the clock reads 0 until then.  The transport (pyserial's Serial object and the        *)
(* device behind it) is the environment: its failures and the arrival of   *)
(* inbound bytes are nondeterministic.  Inbound bytes are numbered in the  *)
(* order the device delivers them on a handle; the code never looks at a   *)
(* byte's value.                                                           *)
(*                                                                         *)
(* Spec is one caller on a transport that works once the send is over.     *)
(* SpecFail adds a transport that fails, or is closed by another thread,   *)
(* during the wait; SpecNeg calls with negative durations; SpecRead is the *)
(* receive-only path (read_data); SpecRace is initialize_port run by two   *)
(* threads at once.                                                        *)
(***************************************************************************)
EXTENDS Integers, Sequences, FiniteSets, TLC

\* ------------------------------------------------------------------ bounds
MaxOpens == 2      \* Serial objects constructed in one behaviour
MaxInbound == 2    \* bytes the device delivers on one handle
MaxBurst == 2      \* bytes arriving together
MaxTime == 3       \* the clock's last reading (ms since the call's send ended)

PollSleep == 1     \* time.sleep(0.001), in ms

Ports == {"COM1", "COM2"}
PayloadLens == {0, 2}      \* len(message.encode(encoding))
InitialDelays == {0, 1}
SilenceWindows == {0, 2}
MaxWaits == {0, 2}
CharDelays == {0, 1}

None == 0          \* no handle
NoTimeout == -1    \* timeout=None, the default of initialize_port: no read timeout

VARIABLES
    connections,    \* _connections: port -> handle id, None when the key is absent
    openHandles,    \* the Serial objects whose is_open is True
    opened,         \* Serial objects constructed so far (handle ids are 1..opened)
    ser_timeout,    \* per port: ser.timeout of the handle stored for it, in ms
    openers,        \* the callers that are inside initialize_port, between its lines
    inbuf,          \* per port: the bytes waiting in the handle's input buffer
    nextByte,       \* per port: the number of the next byte the device delivers
    returned,       \* per port: the bytes the calls on the handle have returned so far
    last,           \* the registry operation that returned last, with its result
    pc,             \* where the send/receive call in flight stands
    args,           \* its arguments
    now,            \* the clock, ms since send_data returned to the call in flight
    sent,           \* payload bytes handed to ser.write so far
    wire,           \* the successful ser.write calls of the call: their sizes
    flushes,        \* successful ser.flush calls of the call
    paceSleeps,     \* time.sleep(char_delay) calls of the call
    start_time,     \* start_time of _send_and_receive_bytes
    last_read_time, \* last_read_time of _send_and_receive_bytes
    data,           \* the accumulator of _send_and_receive_bytes
    ret,            \* what the call returned
    outcome,        \* which return statement the call left by
    trace           \* what the call did to the transport after the send, and
                    \* what arrived meanwhile

regVars == <<connections, openHandles, opened, ser_timeout, openers, last>>
devVars == <<inbuf, nextByte, returned>>
callVars == <<pc, args, now, sent, wire, flushes, paceSleeps, start_time,
              last_read_time, data, ret, outcome, trace>>
vars == <<connections, openHandles, opened, ser_timeout, openers, inbuf, nextByte,
          returned, last, pc, args, now, sent, wire, flushes, paceSleeps,
          start_time, last_read_time, data, ret, outcome, trace>>

\* ---------------------------------------------------------------- registry

\* Line 435 without the is_open test.
is_port_openM(port) == connections[port] # None

\* `port in _connections and _connections[port].is_open`
is_port_open(port) ==
    connections[port] # None /\ connections[port] \in openHandles

Registered == {p \in Ports : connections[p] # None}

\* `last` holds the operation and what it returned; `raised` notes for which
\* ports the transport's release (ser.close()) raised during it.
NoOp == [op |-> "none", port |-> "", success |-> FALSE, status |-> <<"none">>,
         closed |-> {}, errors |-> {}, raised |-> {}]

Result(op, port, success, status) ==
    [op |-> op, port |-> port, success |-> success, status |-> status,
     closed |-> {}, errors |-> {}, raised |-> {}]

Baudrates == {9600, 115200}

\* What the transport does when asked to release a handle: ser.close() returns,
\* or raises leaving is_open True, or raises after is_open became False.
Releases == {"ok", "raise_open", "raise_closed"}

\* Two callers (threads) at most are inside initialize_port at once; each holds
\* the port it was given, the Serial object it constructed and what it returned.
Callers == {1, 2}

NoOpener == [at |-> "out", port |-> "", ser |-> None, success |-> FALSE]

\* Line 78: the guard of initialize_port.
AlreadyOpenM(port) ==
    connections[port] # None /\ connections[port] \notin openHandles

AlreadyOpen(port) == is_port_open(port)

\* The input buffer belongs to the open handle: it starts empty with it.
FreshBuffers(ps) ==
    /\ inbuf' = [p \in Ports |-> IF p \in ps THEN <<>> ELSE inbuf[p]]
    /\ nextByte' = [p \in Ports |-> IF p \in ps THEN 1 ELSE nextByte[p]]
    /\ returned' = [p \in Ports |-> IF p \in ps THEN <<>> ELSE returned[p]]

\* Lines 78-99, with a failed construction dropping the stale entry.
initialize_portM(port, baudrate, timeout, constructed) ==
    /\ pc = "idle"
    /\ IF AlreadyOpen(port)
       THEN /\ last' = Result("initialize_port", port, FALSE, <<"already open", port>>)
            /\ UNCHANGED <<connections, openHandles, opened, ser_timeout, devVars>>
       ELSE IF ~constructed
       THEN /\ last' = Result("initialize_port", port, FALSE, <<"Serial error">>)
            /\ connections' = [connections EXCEPT ![port] = None]
            /\ UNCHANGED <<openHandles, opened, ser_timeout, devVars>>
       ELSE /\ opened < MaxOpens
            /\ opened' = opened + 1
            /\ openHandles' = openHandles \cup {opened + 1}
            /\ connections' = [connections EXCEPT ![port] = opened + 1]
            /\ ser_timeout' = [ser_timeout EXCEPT ![port] = timeout]
            /\ FreshBuffers({port})
            /\ last' = Result("initialize_port", port, TRUE, <<"opened", port, baudrate>>)
    /\ UNCHANGED <<openers, callVars>>

\* Lines 78-99.
initialize_port(port, baudrate, timeout, constructed) ==
    /\ pc = "idle"
    /\ IF AlreadyOpen(port)
       THEN /\ last' = Result("initialize_port", port, FALSE, <<"already open", port>>)
            /\ UNCHANGED <<connections, openHandles, opened, ser_timeout, devVars>>
       ELSE IF ~constructed
       THEN \* serial.Serial(...) raised
            /\ last' = Result("initialize_port", port, FALSE, <<"Serial error">>)
            /\ UNCHANGED <<connections, openHandles, opened, ser_timeout, devVars>>
       ELSE /\ opened < MaxOpens
            /\ opened' = opened + 1
            /\ openHandles' = openHandles \cup {opened + 1}
            /\ connections' = [connections EXCEPT ![port] = opened + 1]
            /\ ser_timeout' = [ser_timeout EXCEPT ![port] = timeout]
            /\ FreshBuffers({port})
            /\ last' = Result("initialize_port", port, TRUE, <<"opened", port, baudrate>>)
    /\ UNCHANGED <<openers, callVars>>

\* Lines 381-394 as a function of the registry: the registry and the open
\* handles after close_port(port), and what it returns.
ClosePort(conn, oh, port, how) ==
    IF conn[port] = None
    THEN [conn |-> conn, oh |-> oh, success |-> FALSE,
          status |-> <<"not initialized", port>>]
    ELSE IF conn[port] \in oh /\ how # "ok"
    THEN \* ser.close() raised: `del _connections[port]` is skipped
         [conn |-> conn,
          oh |-> IF how = "raise_closed" THEN oh \ {conn[port]} ELSE oh,
          success |-> FALSE, status |-> <<"Serial error">>]
    ELSE [conn |-> [conn EXCEPT ![port] = None], oh |-> oh \ {conn[port]},
          success |-> TRUE, status |-> <<"closed", port>>]

ClosePortBody(port, how) ==
    /\ LET r == ClosePort(connections, openHandles, port, how) IN
        /\ connections' = r.conn
        /\ openHandles' = r.oh
        /\ last' = [Result("close_port", port, r.success, r.status)
                        EXCEPT !.raised = IF r.status = <<"Serial error">>
                                          THEN {port} ELSE {}]
        /\ FreshBuffers({p \in Ports : is_port_open(p) /\ r.conn[p] \notin r.oh})
    /\ UNCHANGED <<opened, ser_timeout, openers, callVars>>

\* close_port called by the caller between two calls.
close_port(port, how) ==
    /\ pc = "idle"
    /\ ClosePortBody(port, how)

\* Lines 409-414: the loop of close_all_ports over list(_connections.keys()).
RECURSIVE CloseEach(_, _, _)
CloseEach(keys, hows, st) ==
    IF keys = {} THEN st
    ELSE LET port == CHOOSE p \in keys : TRUE
             r == ClosePort(st.conn, st.oh, port, hows[port])
         IN CloseEach(keys \ {port}, hows,
                [conn |-> r.conn, oh |-> r.oh,
                 closed |-> IF r.success THEN st.closed \cup {port} ELSE st.closed,
                 errors |-> IF r.success THEN st.errors
                            ELSE st.errors \cup {<<port, r.status>>}])

\* Lines 416-422: what close_all_ports returns.
CloseAllReturnM(closed, errors) ==
    IF closed # {} THEN [success |-> TRUE, status |-> <<"Closed ports", closed>>]
    ELSE IF errors # {}
    THEN [success |-> FALSE, status |-> <<"Errors closing ports", errors>>]
    ELSE [success |-> TRUE, status |-> <<"No ports to close">>]

CloseAllReturn(closed, errors) ==
    IF errors # {}
    THEN [success |-> FALSE, status |-> <<"Errors closing ports", errors>>]
    ELSE IF closed # {}
    THEN [success |-> TRUE, status |-> <<"Closed ports", closed>>]
    ELSE [success |-> TRUE, status |-> <<"No ports to close">>]

close_all_ports(hows) ==
    /\ pc = "idle"
    /\ LET st == CloseEach(Registered, hows,
                     [conn |-> connections, oh |-> openHandles,
                      closed |-> {}, errors |-> {}])
           r == CloseAllReturn(st.closed, st.errors)
       IN /\ connections' = st.conn
          /\ openHandles' = st.oh
          /\ last' = [op |-> "close_all_ports", port |-> "", success |-> r.success,
                      status |-> r.status, closed |-> st.closed, errors |-> st.errors,
                      raised |-> {p \in Registered :
                                    is_port_open(p) /\ hows[p] # "ok"}]
          /\ FreshBuffers({p \in Ports : is_port_open(p) /\ st.conn[p] \notin st.oh})
    /\ UNCHANGED <<opened, ser_timeout, openers, callVars>>

\* Line 435, called by the caller between operations.
IsPortOpen(port) ==
    /\ pc = "idle"
    /\ last' = Result("is_port_open", port, is_port_open(port), <<"is_open">>)
    /\ UNCHANGED <<connections, openHandles, opened, ser_timeout, openers, devVars,
                   callVars>>

\* ------------------------------------------------------- the device's side

Burst(port, k) == [i \in 1..k |-> nextByte[port] + i - 1]

\* k bytes arrive together in the input buffer of the handle a call is using or
\* has just used: the device answers what it was sent.
Deliver(k) ==
    /\ pc # "idle"
    /\ is_port_open(args.port)
    /\ nextByte[args.port] + k - 1 <= MaxInbound
    /\ inbuf' = [inbuf EXCEPT ![args.port] = @ \o Burst(args.port, k)]
    /\ nextByte' = [nextByte EXCEPT ![args.port] = @ + k]
    /\ trace' = [trace EXCEPT !.arrivals =
                    Append(@, [t |-> now, bytes |-> Burst(args.port, k)])]
    /\ UNCHANGED <<regVars, returned, pc, args, now, sent, wire, flushes, paceSleeps,
                   start_time, last_read_time, data, ret, outcome>>

\* ------------------------------------------------- send, then frame a reply

NoArgs == [port |-> "", n |-> 0, initial_delay |-> 0, inter_byte_timeout |-> 0,
           max_wait |-> 0, char_delay |-> 0]

NoRet == [success |-> FALSE, status |-> <<"none">>, response |-> <<>>]

NoTrace == [slept |-> FALSE,      \* time.sleep(initial_delay) was called
            polled |-> FALSE,     \* ser.in_waiting was read
            pollSlept |-> FALSE,  \* time.sleep(0.001) was called
            sawAvail |-> FALSE,   \* a poll found ser.in_waiting > 0
            reads |-> <<>>,       \* the sizes of what the ser.read calls returned
            pre |-> <<>>,         \* the bytes already waiting when the call began
            arrivals |-> <<>>]    \* the bursts that arrived since, with their times

\* Lines 218-224: send_and_receive_hex over the triple _send_and_receive_bytes
\* returned; list(data_bytes) keeps each byte's value and the order.
send_and_receive_hex(success, status, data_bytes) ==
    IF success
    THEN [success |-> TRUE, status |-> status, response |-> data_bytes]
    ELSE [success |-> FALSE, status |-> status, response |-> <<>>]

NotOpenReturn(port) == send_and_receive_hex(FALSE, <<"not open", port>>, <<>>)      \* line 243
WriteFailedReturn == send_and_receive_hex(FALSE, <<"Serial error">>, <<>>)          \* lines 146-147, 247
TimeoutReturn == send_and_receive_hex(FALSE, <<"Timeout: No data received">>, <<>>) \* line 259
ReceivedReturn(d) == send_and_receive_hex(TRUE, <<"Received", Len(d)>>, d)          \* line 277
\* Both `break`s of the drain loop (lines 270 and 273) lead to line 277.
SettledReturn(d) == ReceivedReturn(d)
MaxWaitReturn(d) == ReceivedReturn(d)

Finish(o, r) ==
    /\ pc' = "done"
    /\ outcome' = o
    /\ ret' = r

\* Line 242 without the is_open test.
NotOpenM(port) == connections[port] = None

\* Line 242: `port not in _connections or not _connections[port].is_open`.
NotOpen(port) == connections[port] = None \/ connections[port] \notin openHandles

\* Lines 242-245: the call begins; the payload is message.encode(encoding), n bytes.
SendAndReceive(port, n, initial_delay, inter_byte_timeout, max_wait, char_delay) ==
    /\ pc = "idle"
    /\ args' = [port |-> port, n |-> n, initial_delay |-> initial_delay,
                inter_byte_timeout |-> inter_byte_timeout, max_wait |-> max_wait,
                char_delay |-> char_delay]
    /\ now' = 0
    /\ last' = NoOp
    /\ trace' = [NoTrace EXCEPT !.pre = IF port \in Ports THEN inbuf[port] ELSE <<>>]
    /\ IF NotOpen(port)
       THEN Finish("NotOpen", NotOpenReturn(port))
       ELSE pc' = "write" /\ UNCHANGED <<ret, outcome>>
    /\ UNCHANGED <<connections, openHandles, opened, ser_timeout, openers, devVars,
                   sent, wire, flushes, paceSleeps, start_time, last_read_time, data>>

Writes == {"ok", "write_raises", "flush_raises"}

\* Line 246: `if not success: return (False, status, b"")`.
GoesOnAfterSendM(success) == TRUE

GoesOnAfterSend(success) == success

\* send_data returned (success, status): line 144 or lines 146-149, then lines 246-251.
SendReturns(success) ==
    IF GoesOnAfterSend(success)
    THEN /\ pc' = "initial_delay"
         /\ start_time' = now'
         /\ UNCHANGED <<ret, outcome>>
    ELSE /\ Finish("WriteError", WriteFailedReturn)
         /\ UNCHANGED start_time

\* Lines 139-142: char_delay = 0, the whole payload in one ser.write, then ser.flush.
WriteAll(how) ==
    /\ pc = "write"
    /\ ~(args.char_delay > 0)
    /\ sent' = IF how = "write_raises" THEN sent ELSE args.n
    /\ wire' = IF how = "write_raises" THEN wire ELSE Append(wire, args.n)
    /\ flushes' = IF how = "ok" THEN flushes + 1 ELSE flushes
    /\ now' = now
    /\ SendReturns(how = "ok")
    /\ UNCHANGED <<regVars, devVars, args, paceSleeps, last_read_time, data, trace>>

\* Lines 134-136 without line 137: the bytes follow each other with no pause.
WriteByteM(how) ==
    /\ pc = "write"
    /\ args.char_delay > 0
    /\ sent < args.n
    /\ sent' = IF how = "write_raises" THEN sent ELSE sent + 1
    /\ wire' = IF how = "write_raises" THEN wire ELSE Append(wire, 1)
    /\ flushes' = IF how = "ok" THEN flushes + 1 ELSE flushes
    /\ IF how = "ok"
       THEN /\ now' = now
            /\ UNCHANGED <<pc, start_time, ret, outcome>>
       ELSE /\ now' = now
            /\ SendReturns(FALSE)
    /\ UNCHANGED <<regVars, devVars, args, paceSleeps, last_read_time, data, trace>>

\* Lines 134-137: one pass of the paced loop: write a byte, flush, sleep char_delay.
WriteByte(how) ==
    /\ pc = "write"
    /\ args.char_delay > 0
    /\ sent < args.n
    /\ sent' = IF how = "write_raises" THEN sent ELSE sent + 1
    /\ wire' = IF how = "write_raises" THEN wire ELSE Append(wire, 1)
    /\ flushes' = IF how = "ok" THEN flushes + 1 ELSE flushes
    /\ IF how = "ok"
       THEN /\ now' = now
            /\ paceSleeps' = paceSleeps + 1
            /\ UNCHANGED <<pc, start_time, ret, outcome>>
       ELSE /\ now' = now
            /\ SendReturns(FALSE)
            /\ UNCHANGED paceSleeps
    /\ UNCHANGED <<regVars, devVars, args, last_read_time, data, trace>>

\* Lines 138, 144: the paced loop is over, send_data returns (True, "Sent n bytes").
WriteDone ==
    /\ pc = "write"
    /\ args.char_delay > 0
    /\ sent = args.n
    /\ now' = now
    /\ SendReturns(TRUE)
    /\ UNCHANGED <<regVars, devVars, args, sent, wire, flushes, paceSleeps,
                   last_read_time, data, trace>>

\* Line 254 without the sleep: the polling starts at once.
InitialDelayM ==
    /\ pc = "initial_delay"
    /\ pc' = "wait_first"
    /\ trace' = [trace EXCEPT !.slept = TRUE]
    /\ UNCHANGED <<regVars, devVars, args, now, sent, wire, flushes, paceSleeps,
                   start_time, last_read_time, data, ret, outcome>>

\* Line 254: time.sleep(initial_delay) returns once that much time has passed;
\* given a negative length it raises ValueError, which nothing catches.
InitialDelay ==
    /\ pc = "initial_delay"
    /\ IF args.initial_delay < 0
       THEN /\ pc' = "done"
            /\ outcome' = "Raised"
            /\ UNCHANGED trace
       ELSE /\ now - start_time >= args.initial_delay
            /\ pc' = "wait_first"
            /\ trace' = [trace EXCEPT !.slept = TRUE]
            /\ UNCHANGED outcome
    /\ UNCHANGED <<regVars, devVars, args, now, sent, wire, flushes, paceSleeps,
                   start_time, last_read_time, data, ret>>

\* Lines 257-260: one pass of the loop that waits for the first byte.
WaitDecisionM(in_waiting, t, start, max_wait) ==
    IF in_waiting # 0 THEN "drain"
    ELSE IF t - start >= max_wait THEN "timeout"
    ELSE "sleep"

WaitDecision(in_waiting, t, start, max_wait) ==
    IF in_waiting # 0 THEN "drain"
    ELSE IF t - start > max_wait THEN "timeout"
    ELSE "sleep"

PollSleeps ==
    /\ now + PollSleep <= MaxTime
    /\ now' = now + PollSleep

\* Line 249: `ser` is the handle the registry held for the port when the send
\* returned; no handle is stored for a port while a call is in flight, so that
\* handle is open exactly when the port is.
SerOpen == is_port_open(args.port)

WaitPoll ==
    /\ pc = "wait_first"
    /\ SerOpen
    /\ LET d == WaitDecision(Len(inbuf[args.port]), now, start_time, args.max_wait) IN
        /\ trace' = [trace EXCEPT !.polled = TRUE,
                                  !.sawAvail = (d = "drain"),
                                  !.pollSlept = @ \/ d = "sleep"]
        /\ CASE d = "drain" ->
                  \* line 263
                  /\ pc' = "drain"
                  /\ last_read_time' = now
                  /\ UNCHANGED <<now, ret, outcome>>
             [] d = "timeout" ->
                  /\ Finish("EmptyTimeout", TimeoutReturn)
                  /\ UNCHANGED <<now, last_read_time>>
             [] d = "sleep" ->
                  /\ PollSleeps
                  /\ UNCHANGED <<pc, last_read_time, ret, outcome>>
    /\ UNCHANGED <<regVars, devVars, args, sent, wire, flushes, paceSleeps,
                   start_time, data>>

\* Lines 264-275: one pass of the drain loop.
DrainDecisionDeadlineFirstM(in_waiting, t, last_read, start, silence, max_wait) ==
    IF in_waiting > 0 THEN "read"
    ELSE IF t - start > max_wait THEN "max_wait"
    ELSE IF t - last_read > silence THEN "settled"
    ELSE "sleep"

DrainDecisionEagerM(in_waiting, t, last_read, start, silence, max_wait) ==
    IF in_waiting > 0 THEN "read"
    ELSE IF t - last_read >= silence THEN "settled"
    ELSE IF t - start > max_wait THEN "max_wait"
    ELSE "sleep"

DrainDecision(in_waiting, t, last_read, start, silence, max_wait) ==
    IF in_waiting > 0 THEN "read"
    ELSE IF t - last_read > silence THEN "settled"
    ELSE IF t - start > max_wait THEN "max_wait"
    ELSE "sleep"

\* Lines 264-275: one pass of the drain loop, by DrainDecision.
DrainPoll ==
    /\ pc = "drain"
    /\ SerOpen
    /\ LET d == DrainDecision(Len(inbuf[args.port]), now, last_read_time, start_time,
                              args.inter_byte_timeout, args.max_wait) IN
        CASE d = "read" ->
               \* lines 266-267: ser.read(ser.in_waiting) takes all that is waiting
               /\ data' = data \o inbuf[args.port]
               /\ inbuf' = [inbuf EXCEPT ![args.port] = <<>>]
               /\ last_read_time' = now
               /\ trace' = [trace EXCEPT !.reads = Append(@, Len(inbuf[args.port]))]
               /\ UNCHANGED <<pc, now, ret, outcome, nextByte, returned>>
          [] d = "settled" ->
               /\ Finish("Settled", SettledReturn(data))
               /\ UNCHANGED <<now, data, devVars, last_read_time, trace>>
          [] d = "max_wait" ->
               /\ Finish("PartialTimeout", MaxWaitReturn(data))
               /\ UNCHANGED <<now, data, devVars, last_read_time, trace>>
          [] d = "sleep" ->
               /\ PollSleeps
               /\ trace' = [trace EXCEPT !.pollSlept = TRUE]
               /\ UNCHANGED <<pc, data, devVars, last_read_time, ret, outcome>>
    /\ UNCHANGED <<regVars, args, sent, wire, flushes, paceSleeps, start_time>>

\* Time passes while the call waits or is between two statements.
Tick ==
    /\ pc \in {"initial_delay", "wait_first", "drain", "read_wait", "read_check"}
    /\ now < MaxTime
    /\ now' = now + 1
    /\ UNCHANGED <<regVars, devVars, pc, args, sent, wire, flushes, paceSleeps,
                   start_time, last_read_time, data, ret, outcome, trace>>

\* The caller has the returned tuple; the frame of the call is gone.
CallReturn ==
    /\ pc = "done"
    /\ returned' = [returned EXCEPT ![args.port] = @ \o ret.response]
    /\ pc' = "idle"
    /\ args' = NoArgs
    /\ now' = 0
    /\ sent' = 0
    /\ wire' = <<>>
    /\ flushes' = 0
    /\ paceSleeps' = 0
    /\ start_time' = 0
    /\ last_read_time' = 0
    /\ data' = <<>>
    /\ ret' = NoRet
    /\ outcome' = "none"
    /\ trace' = NoTrace
    /\ UNCHANGED <<regVars, inbuf, nextByte>>

\* ------------------------------------ initialize_port called from two threads

\* initialize_port holds no lock: a caller may be preempted between its lines.
Opener(at, port, ser, success) ==
    [at |-> at, port |-> port, ser |-> ser, success |-> success]

\* Lines 78-79: the check, by caller c.
OpenCheck(c, port) ==
    /\ pc = "idle"
    /\ openers[c].at = "out"
    /\ openers' = [openers EXCEPT ![c] =
                      IF AlreadyOpen(port)
                      THEN Opener("returned", port, None, FALSE)
                      ELSE Opener("checked", port, None, FALSE)]
    /\ UNCHANGED <<connections, openHandles, opened, ser_timeout, last, devVars,
                   callVars>>

\* Lines 82-92: serial.Serial(...) returns an open handle, or raises (lines
\* 96-99).  Whether a port that another handle holds open can be opened again
\* is the platform's choice.
OpenConstruct(c, constructed) ==
    /\ openers[c].at = "checked"
    /\ IF constructed
       THEN /\ opened < MaxOpens
            /\ opened' = opened + 1
            /\ openHandles' = openHandles \cup {opened + 1}
            /\ openers' = [openers EXCEPT ![c] =
                              Opener("constructed", @.port, opened + 1, FALSE)]
       ELSE /\ openers' = [openers EXCEPT ![c] =
                              Opener("returned", @.port, None, FALSE)]
            /\ UNCHANGED <<opened, openHandles>>
    /\ UNCHANGED <<connections, ser_timeout, last, devVars, callVars>>

\* Lines 93-94: `_connections[port] = ser`, and the success is returned.
OpenStore(c) ==
    /\ openers[c].at = "constructed"
    /\ connections' = [connections EXCEPT ![openers[c].port] = openers[c].ser]
    /\ FreshBuffers({openers[c].port})
    /\ openers' = [openers EXCEPT ![c] = Opener("returned", @.port, @.ser, TRUE)]
    /\ UNCHANGED <<openHandles, opened, ser_timeout, last, callVars>>

\* The caller has its result and may call again.
OpenLeave(c) ==
    /\ openers[c].at = "returned"
    /\ openers' = [openers EXCEPT ![c] = NoOpener]
    /\ UNCHANGED <<connections, openHandles, opened, ser_timeout, last, devVars,
                   callVars>>

\* ---------------------------------------------------- the receive-only path

\* The read timeouts a port is opened with, in ms.
Timeouts == {NoTimeout, 0, 2}

\* Lines 293-297: read_data begins.
ReadData(port) ==
    /\ pc = "idle"
    /\ args' = [NoArgs EXCEPT !.port = port]
    /\ now' = 0
    /\ last' = NoOp
    /\ trace' = [NoTrace EXCEPT !.pre = inbuf[port]]
    /\ IF is_port_open(port)
       THEN pc' = "read_wait" /\ UNCHANGED <<ret, outcome>>
       ELSE Finish("NotOpen", [success |-> FALSE, status |-> <<"not open", port>>,
                               response |-> <<>>])
    /\ UNCHANGED <<connections, openHandles, opened, ser_timeout, openers, devVars,
                   sent, wire, flushes, paceSleeps, start_time, last_read_time, data>>

\* Lines 300-302: one pass of `while ser.in_waiting == 0`.
ReadWaitDecision(in_waiting, timeout) ==
    IF in_waiting # 0 THEN "available"
    ELSE IF timeout # NoTimeout THEN "break"
    ELSE "again"

\* The loop is left; a pass that goes round again changes nothing.
ReadWait ==
    /\ pc = "read_wait"
    /\ SerOpen
    /\ ReadWaitDecision(Len(inbuf[args.port]), ser_timeout[args.port]) # "again"
    /\ pc' = "read_check"
    /\ trace' = [trace EXCEPT !.polled = TRUE]
    /\ UNCHANGED <<regVars, devVars, args, now, sent, wire, flushes, paceSleeps,
                   start_time, last_read_time, data, ret, outcome>>

\* Lines 304-309: the second look at ser.in_waiting, and the read.
ReadCheck ==
    /\ pc = "read_check"
    /\ SerOpen
    /\ IF Len(inbuf[args.port]) = 0
       THEN /\ Finish("ReadTimeout",
                      [success |-> FALSE, status |-> <<"Timeout: No data received">>,
                       response |-> <<>>])
            /\ UNCHANGED <<devVars, data, trace>>
       ELSE /\ data' = inbuf[args.port]
            /\ inbuf' = [inbuf EXCEPT ![args.port] = <<>>]
            /\ trace' = [trace EXCEPT !.sawAvail = TRUE,
                                      !.reads = Append(@, Len(inbuf[args.port]))]
            /\ Finish("ReadReceived",
                      [success |-> TRUE,
                       status |-> <<"Received", Len(inbuf[args.port])>>,
                       response |-> inbuf[args.port]])
            /\ UNCHANGED <<nextByte, returned>>
    /\ UNCHANGED <<regVars, args, now, sent, wire, flushes, paceSleeps, start_time,
                   last_read_time>>

\* ------------------------------------- the transport fails during the wait

\* Another thread calls close_port on the port of the call in flight, while
\* the call sleeps or is between two polls; what close_port returns goes to
\* that thread.
CloseDuringCall(how) ==
    /\ pc \in {"initial_delay", "wait_first", "drain"}
    /\ LET r == ClosePort(connections, openHandles, args.port, how) IN
        /\ connections' = r.conn
        /\ openHandles' = r.oh
        /\ FreshBuffers({p \in Ports : is_port_open(p) /\ r.conn[p] \notin r.oh})
    /\ UNCHANGED <<opened, ser_timeout, openers, last, callVars>>

\* Lines 257, 265, 266: ser.in_waiting or ser.read raises, as it does on a handle
\* that was closed and may on an open one (the device is gone).  No try
\* encloses lines 249-277, and neither send_and_receive nor send_and_receive_hex
\* calls _send_and_receive_bytes inside one: the exception leaves the call and no
\* tuple is returned.
PollRaises(broken) ==
    /\ pc \in {"wait_first", "drain"}
    /\ broken \/ ~SerOpen
    /\ pc' = "done"
    /\ outcome' = "Raised"
    /\ UNCHANGED <<regVars, devVars, args, now, sent, wire, flushes, paceSleeps,
                   start_time, last_read_time, data, ret, trace>>

\* ------------------------------------------------------------ specification

Init ==
    /\ connections = [p \in Ports |-> None]
    /\ openHandles = {}
    /\ opened = 0
    /\ ser_timeout = [p \in Ports |-> NoTimeout]
    /\ openers = [c \in Callers |-> NoOpener]
    /\ inbuf = [p \in Ports |-> <<>>]
    /\ nextByte = [p \in Ports |-> 1]
    /\ returned = [p \in Ports |-> <<>>]
    /\ last = NoOp
    /\ pc = "idle"
    /\ args = NoArgs
    /\ now = 0
    /\ sent = 0
    /\ wire = <<>>
    /\ flushes = 0
    /\ paceSleeps = 0
    /\ start_time = 0
    /\ last_read_time = 0
    /\ data = <<>>
    /\ ret = NoRet
    /\ outcome = "none"
    /\ trace = NoTrace

Next ==
    \/ \E port \in Ports, baudrate \in Baudrates, constructed \in BOOLEAN :
           initialize_port(port, baudrate, NoTimeout, constructed)
    \/ \E port \in Ports, how \in Releases : close_port(port, how)
    \/ \E hows \in [Ports -> Releases] : close_all_ports(hows)
    \/ \E port \in Ports : IsPortOpen(port)
    \/ \E k \in 1..MaxBurst : Deliver(k)
    \/ \E port \in Ports, n \in PayloadLens, initial_delay \in InitialDelays,
          inter_byte_timeout \in SilenceWindows, max_wait \in MaxWaits,
          char_delay \in CharDelays :
           SendAndReceive(port, n, initial_delay, inter_byte_timeout, max_wait,
                          char_delay)
    \/ \E how \in Writes : WriteAll(how)
    \/ \E how \in Writes : WriteByte(how)
    \/ WriteDone
    \/ InitialDelay
    \/ WaitPoll
    \/ DrainPoll
    \/ Tick
    \/ CallReturn

Spec == Init /\ [][Next]_vars

\* The program with a transport that may fail, or be closed by another thread,
\* while a call waits for the reply.  The calls send a message that is not
\* empty in one write (char_delay 0, the default).
NextFail ==
    \/ \E port \in Ports, baudrate \in Baudrates, constructed \in BOOLEAN :
           initialize_port(port, baudrate, NoTimeout, constructed)
    \/ \E k \in 1..MaxBurst : Deliver(k)
    \/ \E port \in Ports, n \in PayloadLens \ {0}, initial_delay \in InitialDelays,
          inter_byte_timeout \in SilenceWindows, max_wait \in MaxWaits :
           SendAndReceive(port, n, initial_delay, inter_byte_timeout, max_wait, 0)
    \/ \E how \in Writes : WriteAll(how)
    \/ InitialDelay
    \/ WaitPoll
    \/ DrainPoll
    \/ Tick
    \/ CallReturn
    \/ \E how \in Releases : CloseDuringCall(how)
    \/ \E broken \in BOOLEAN : PollRaises(broken)

SpecFail == Init /\ [][NextFail]_vars

\* Two threads calling initialize_port, interleaved line by line; no port is
\* closed, so that a second success on a port is never a reopening.
NextRace ==
    \/ \E c \in Callers, port \in Ports : OpenCheck(c, port)
    \/ \E c \in Callers, constructed \in BOOLEAN : OpenConstruct(c, constructed)
    \/ \E c \in Callers : OpenStore(c)
    \/ \E c \in Callers : OpenLeave(c)
    \/ \E port \in Ports : IsPortOpen(port)

SpecRace == Init /\ [][NextRace]_vars

\* The receive-only path, on ports opened with and without a read timeout.
NextRead ==
    \/ \E port \in Ports, baudrate \in Baudrates, timeout \in Timeouts,
          constructed \in BOOLEAN :
           initialize_port(port, baudrate, timeout, constructed)
    \/ \E port \in Ports, how \in Releases : close_port(port, how)
    \/ \E k \in 1..MaxBurst : Deliver(k)
    \/ \E port \in Ports : ReadData(port)
    \/ ReadWait
    \/ ReadCheck
    \/ Tick
    \/ CallReturn

SpecRead == Init /\ [][NextRead]_vars

\* The program called with a message that is not empty and with durations of
\* which one at least is negative.
NegativeDurations == {-1}

Negative(a) ==
    \/ a.initial_delay < 0
    \/ a.inter_byte_timeout < 0
    \/ a.max_wait < 0
    \/ a.char_delay < 0

NextNeg ==
    \/ \E port \in Ports, baudrate \in Baudrates, constructed \in BOOLEAN :
           initialize_port(port, baudrate, NoTimeout, constructed)
    \/ \E k \in 1..MaxBurst : Deliver(k)
    \/ /\ pc = "idle"
       /\ \E port \in Ports, n \in PayloadLens \ {0},
             initial_delay \in InitialDelays \cup NegativeDurations,
             inter_byte_timeout \in SilenceWindows \cup NegativeDurations,
             max_wait \in MaxWaits \cup NegativeDurations,
             char_delay \in CharDelays \cup NegativeDurations :
              /\ Negative([initial_delay |-> initial_delay,
                           inter_byte_timeout |-> inter_byte_timeout,
                           max_wait |-> max_wait, char_delay |-> char_delay])
              /\ SendAndReceive(port, n, initial_delay, inter_byte_timeout, max_wait,
                                char_delay)
    \/ \E how \in Writes : WriteAll(how)
    \/ \E how \in Writes : WriteByte(how)
    \/ WriteDone
    \/ InitialDelay
    \/ WaitPoll
    \/ DrainPoll
    \/ Tick
    \/ CallReturn

SpecNeg == Init /\ [][NextNeg]_vars

\* ------------------------------------------------------------------ claims

IsStep(op) == last'.op = op /\ last' # last

\* C1: close_port on an id present in the registry always removes it: when the
\* call returns the id is absent and is_port_open(id) is false, also when the
\* transport's release raised.
C1_CloseAlwaysRemoves ==
    [][\A p \in Ports :
          (connections[p] # None /\ IsStep("close_port") /\ last'.port = p)
              => (connections'[p] = None /\ ~is_port_open(p)')]_vars

\* C2: after close_all_ports returns, every id that was registered is gone from
\* the registry and not open, the ids whose release failed included; a close
\* was attempted for every entry.
C2_CloseAllRemovesAll ==
    [][IsStep("close_all_ports")
          => /\ \A p \in Ports : connections'[p] = None /\ ~is_port_open(p)'
             /\ last'.closed \cup {e[1] : e \in last'.errors} = Registered]_vars

\* C3: close_all_ports succeeds exactly when no individual close failed (an
\* empty registry included), and on failure its report names exactly the ids
\* whose close failed, none of which it counts as closed.
C3_CloseAllReport ==
    last.op = "close_all_ports"
        => /\ last.success <=> last.raised = {}
           /\ {e[1] : e \in last.errors} = last.raised
           /\ last.closed \cap last.raised = {}
           /\ ~last.success => last.status = <<"Errors closing ports", last.errors>>
           /\ (last.closed = {} /\ last.raised = {})
                  => last.status = <<"No ports to close">>

C3_Witness ==
    /\ last.op = "close_all_ports"
    /\ ~last.success
    /\ last.closed # {}
    /\ last.raised # {}

\* C4: initialize_port on an id whose handle is open fails with "already
\* open", constructs no Serial object, and leaves the registry entry and the
\* handle as they were, whatever the configuration.
C4_SecondOpenRefused ==
    [][\A p \in Ports :
          (is_port_open(p) /\ IsStep("initialize_port") /\ last'.port = p)
              => /\ ~last'.success
                 /\ last'.status = <<"already open", p>>
                 /\ UNCHANGED <<connections, openHandles, opened, inbuf, nextByte>>]_vars

C4_Witness ==
    /\ last.op = "initialize_port"
    /\ last.status = <<"already open", last.port>>
    /\ is_port_open(last.port)

\* What the call in flight is given and what it has seen, for the claims below.
Port == args.port
Elapsed == now - start_time
Silence == now - last_read_time
Waiting == Len(inbuf[Port])

RECURSIVE Flatten(_)
Flatten(bursts) ==
    IF bursts = <<>> THEN <<>> ELSE Head(bursts).bytes \o Flatten(Tail(bursts))

RECURSIVE Sum(_)
Sum(ns) == IF ns = <<>> THEN 0 ELSE Head(ns) + Sum(Tail(ns))

\* Every byte the handle held or received since the call began, in order.
Inbound == trace.pre \o Flatten(trace.arrivals)

\* The k-th burst that arrived during the call is part of what was returned.
Returned(k) ==
    Len(trace.pre \o Flatten(SubSeq(trace.arrivals, 1, k))) <= Len(ret.response)

\* C5: max-wait is a ceiling on the framing wait for every arrival pattern: a
\* pass of the drain loop made after max-wait has elapsed ends the call, also
\* when bytes are waiting at that poll.
C5_MaxWaitIsCeiling ==
    [][(pc = "drain" /\ Elapsed > args.max_wait /\ DrainPoll) => pc' = "done"]_vars

C6_MaxWaitExitState ==
    (pc = "done" /\ outcome = "PartialTimeout")
        => /\ ret = [success |-> TRUE, status |-> <<"Received", Len(data)>>,
                     response |-> data]
           /\ data # <<>>
           /\ Elapsed > args.max_wait
           /\ ~(Silence > args.inter_byte_timeout)
           /\ ret # TimeoutReturn

C7_TwoBurstsByGap ==
    (pc = "done" /\ ret.success /\ trace.pre = <<>> /\ Len(trace.arrivals) = 2)
        => LET first == trace.arrivals[1]
               second == trace.arrivals[2]
               gap == second.t - first.t
           IN /\ gap < args.inter_byte_timeout
                    => ret.response = first.bytes \o second.bytes
              /\ gap > args.inter_byte_timeout
                    => /\ outcome = "Settled"
                       /\ ret.response = first.bytes
                       /\ inbuf[Port] = second.bytes

\* What holds of a call that returned a response.
C7_FramingState ==
    (pc = "done" /\ ret.success)
        => /\ ret.response \o inbuf[Port] = Inbound
           /\ \A k \in 2..Len(trace.arrivals) :
                 (/\ trace.arrivals[k].t - trace.arrivals[k - 1].t
                        < args.inter_byte_timeout
                  /\ trace.arrivals[k].t - start_time <= args.max_wait
                  /\ Returned(k - 1))
                     => Returned(k)
           /\ outcome = "Settled" => Silence > args.inter_byte_timeout

\* C7, amended: what is returned and what stays in the transport are together
\* the inbound bytes in arrival order; a burst that arrives less than the
\* silence window after a returned one, and before max-wait has elapsed, is
\* returned with it; the call settles only at a poll that finds nothing waiting
\* more than the silence window after its last read (not after the last
\* arrival), and bursts arriving later stay in the transport.
C7_Framing ==
    /\ []C7_FramingState
    /\ [][(/\ pc = "drain"
           /\ DrainPoll
           /\ Waiting = 0
           /\ Silence > args.inter_byte_timeout)
              => (pc' = "done" /\ outcome' = "Settled" /\ UNCHANGED inbuf)]_vars

C7_Witness ==
    /\ pc = "done"
    /\ ret.success
    /\ trace.pre = <<>>
    /\ Len(trace.arrivals) = 2
    /\ trace.arrivals[2].t > trace.arrivals[1].t
    /\ trace.arrivals[2].t - trace.arrivals[1].t < args.inter_byte_timeout
    /\ Len(trace.reads) = 2
    /\ ret.response = trace.arrivals[1].bytes \o trace.arrivals[2].bytes

\* What holds of a call that timed out before the first byte.
C8_EmptyTimeoutState ==
    (pc = "done" /\ outcome = "EmptyTimeout")
        => /\ ret = [success |-> FALSE, status |-> <<"Timeout: No data received">>,
                     response |-> <<>>]
           /\ data = <<>>
           /\ trace.reads = <<>>
           /\ ~trace.sawAvail
           /\ inbuf[Port] = Inbound
           /\ Elapsed > args.max_wait

C9_ZeroMeansNoWaiting ==
    (pc = "done" /\ outcome \in {"EmptyTimeout", "Settled", "PartialTimeout"})
        => /\ args.max_wait = 0 => ~trace.pollSlept
           /\ (args.max_wait = 0 \/ args.inter_byte_timeout = 0)
                  => Len(trace.reads) <= 1

\* What holds of a call that a failing write ended.
C10_WriteErrorState ==
    (pc = "done" /\ outcome = "WriteError")
        => /\ ret = [success |-> FALSE, status |-> <<"Serial error">>,
                     response |-> <<>>]
           /\ Sum(wire) = sent
           /\ sent <= args.n
           /\ flushes \in {Len(wire) - 1, Len(wire)}
           /\ ~trace.slept
           /\ ~trace.polled
           /\ trace.reads = <<>>
           /\ data = <<>>
           /\ inbuf[Port] = Inbound

\* C10: a failing ser.write or ser.flush ends the call at once with the
\* "Serial error" failure: no payload byte is written after it, and the call
\* neither sleeps the initial delay, nor polls, nor reads.
C10_WriteFailureAborts ==
    /\ []C10_WriteErrorState
    /\ [][(\E how \in Writes \ {"ok"} : WriteAll(how) \/ WriteByte(how))
              => (pc' = "done" /\ outcome' = "WriteError")]_vars
    /\ [][(pc = "done" /\ outcome = "WriteError" /\ pc' = "done")
              => UNCHANGED <<sent, wire, flushes, paceSleeps>>]_vars

C10_Witness ==
    /\ pc = "done"
    /\ outcome = "WriteError"
    /\ args.char_delay > 0
    /\ 0 < sent
    /\ sent < args.n
    /\ inbuf[Port] # <<>>

\* C11: every call that ends hands its caller a result tuple; a transport
\* failure while the framing loop polls or reads (the port was closed during
\* the wait, for one) is returned as a "Serial error" failure and never leaves
\* the call as an exception.
C11_FailuresAreReturned ==
    pc = "done" => (outcome # "Raised" /\ ret # NoRet /\ ret.status # <<"none">>)

\* C12: a call on an open port with a negative initial delay, silence window,
\* max-wait or pacing writes nothing to the transport and ends with a
\* configuration-error result: it neither raises nor returns a framing outcome
\* (a timeout or data), and the negative value is not taken for zero.
C12_NegativeIsConfigurationError ==
    (pc # "idle" /\ Negative(args) /\ outcome # "NotOpen")
        => /\ wire = <<>>
           /\ flushes = 0
           /\ pc \in {"write", "done"}
           /\ pc = "done" => outcome = "ConfigurationError"

\* C13: read_data waits by the deadline: it reports "Timeout: No data
\* received" only on a port that has a read timeout, and only once that much
\* time has passed since the call began; on a port without a read timeout it
\* ends only by returning the bytes that arrived.
C13_ReadWaitsForDeadline ==
    (pc = "done" /\ outcome = "ReadTimeout")
        => /\ ser_timeout[Port] # NoTimeout
           /\ now >= ser_timeout[Port]
           /\ trace.reads = <<>>

\* C14: an initialize_port whose serial.Serial(...) raises returns the "Serial
\* error" failure and leaves the registry as it was: no entry is added, and a
\* stale entry (a closed handle) is neither replaced nor removed.  One whose
\* construction succeeds stores the new, open handle under the port, in place
\* of a stale entry if there was one, and touches no other port's entry.
C14_FailedOpenKeepsRegistry ==
    [][\A p \in Ports, b \in Baudrates :
          /\ (initialize_port(p, b, NoTimeout, FALSE)
                  /\ ~(connections[p] # None /\ connections[p] \in openHandles))
                 => /\ last' = Result("initialize_port", p, FALSE, <<"Serial error">>)
                    /\ UNCHANGED <<connections, openHandles, opened, ser_timeout,
                                   inbuf, nextByte>>
          /\ (initialize_port(p, b, NoTimeout, TRUE)
                  /\ ~(connections[p] # None /\ connections[p] \in openHandles))
                 => /\ last'.success
                    /\ connections'[p] \notin 0..opened
                    /\ connections'[p] \in openHandles'
                    /\ openHandles' = openHandles \cup {connections'[p]}
                    /\ \A q \in Ports \ {p} : connections'[q] = connections[q]]_vars

C14_Witness ==
    /\ last.op = "initialize_port"
    /\ last.status = <<"Serial error">>
    /\ connections[last.port] # None
    /\ connections[last.port] \notin openHandles

\* What holds of a call that found the port not open.
C15_NotOpenState ==
    (pc = "done" /\ outcome = "NotOpen")
        => /\ ~is_port_open(Port)
           /\ ret = [success |-> FALSE, status |-> <<"not open", Port>>,
                     response |-> <<>>]
           /\ sent = 0
           /\ wire = <<>>
           /\ flushes = 0
           /\ paceSleeps = 0
           /\ ~trace.slept
           /\ ~trace.polled
           /\ trace.reads = <<>>
           /\ data = <<>>
           /\ inbuf[Port] = trace.pre

\* C15: close_port on a port absent from the registry fails with "was not
\* initialized", and a send/receive call on a port that is absent, or whose
\* handle is no longer open, fails with "is not open"; neither changes the
\* registry or any handle, and the call writes nothing and reads nothing.
C15_NotOpenHasNoEffect ==
    /\ []C15_NotOpenState
    /\ [][\A p \in Ports :
            (pc = "idle" /\ pc' # "idle" /\ args'.port = p /\ ~is_port_open(p))
                => /\ pc' = "done"
                   /\ outcome' = "NotOpen"
                   /\ UNCHANGED <<connections, openHandles, opened, inbuf,
                                  nextByte>>]_vars
    /\ [][\A p \in Ports :
            (connections[p] = None /\ IsStep("close_port") /\ last'.port = p)
                => /\ last' = Result("close_port", p, FALSE, <<"not initialized", p>>)
                   /\ UNCHANGED <<connections, openHandles, opened, inbuf, nextByte,
                                  callVars>>]_vars

C15_Witness ==
    /\ pc = "done"
    /\ outcome = "NotOpen"
    /\ connections[Port] # None

\* C16: is_port_open is a lookup: it answers true exactly when the port has an
\* entry whose handle is open (false for a port without an entry, and for one
\* whose stored handle is closed), and it changes neither the registry, nor a
\* handle, nor a buffer, after whatever operations came before.
C16_IsOpenIsPureLookup ==
    [][\A p \in Ports :
          (IsStep("is_port_open") /\ last'.port = p)
              => /\ last'.success
                        <=> (connections[p] # None /\ connections[p] \in openHandles)
                 /\ connections[p] = None => ~last'.success
                 /\ UNCHANGED <<connections, openHandles, opened, ser_timeout, inbuf,
                                nextByte, returned, callVars>>]_vars

C16_Witness ==
    /\ last.op = "is_port_open"
    /\ ~last.success
    /\ connections[last.port] # None
    /\ \E q \in Ports : connections[q] # None /\ connections[q] \in openHandles

\* The steps one call may take from one position to the next.
C17_Moves ==
    {<<"idle", "idle">>, <<"idle", "write">>, <<"idle", "done">>,
     <<"write", "write">>, <<"write", "initial_delay">>, <<"write", "done">>,
     <<"initial_delay", "initial_delay">>, <<"initial_delay", "wait_first">>,
     <<"wait_first", "wait_first">>, <<"wait_first", "drain">>,
     <<"wait_first", "done">>,
     <<"drain", "drain">>, <<"drain", "done">>,
     <<"done", "done">>, <<"done", "idle">>}

\* What holds of a call at every position.
C17_OrderState ==
    /\ pc \in {"initial_delay", "wait_first", "drain"}
          => (sent = args.n /\ Sum(wire) = args.n)
    /\ trace.slept => (sent = args.n /\ Sum(wire) = args.n)
    /\ trace.polled => (trace.slept /\ Elapsed >= args.initial_delay)
    /\ trace.reads # <<>> => (trace.polled /\ trace.sawAvail)
    /\ pc = "write" => (~trace.slept /\ ~trace.polled /\ trace.reads = <<>>)
    /\ pc = "wait_first" => (trace.reads = <<>> /\ data = <<>>)

\* C17: a call moves only forward through idle, write, (initial delay,) wait
\* for the first byte, drain, done: the whole payload is written before the
\* initial delay starts, ser.in_waiting is not polled before the initial delay
\* has passed, nothing is read before a poll found a byte waiting, each
\* position ends only by its own outcomes, and a call that is done writes,
\* polls and reads no more.
C17_OneWayCall ==
    /\ []C17_OrderState
    /\ [][(<<pc, pc'>> \in C17_Moves)]_vars
    /\ [][pc' = "done" /\ pc # "done"
             => outcome' \in (CASE pc = "idle" -> {"NotOpen"}
                               [] pc = "write" -> {"WriteError"}
                               [] pc = "wait_first" -> {"EmptyTimeout"}
                               [] pc = "drain" -> {"Settled", "PartialTimeout"}
                               [] OTHER -> {})]_vars
    /\ [][(pc = "done" /\ pc' # "idle")
             => /\ pc' = "done"
                /\ trace'.polled = trace.polled
                /\ trace'.reads = trace.reads
                /\ trace'.pollSlept = trace.pollSlept
                /\ UNCHANGED <<sent, wire, flushes, paceSleeps, data, ret, outcome,
                               now>>]_vars

C17_Witness ==
    /\ pc = "done"
    /\ outcome = "Settled"
    /\ args.initial_delay > 0
    /\ args.n > 0
    /\ Len(trace.reads) > 0

\* What holds once send_data has returned success.
C18_SentState ==
    (pc \in {"initial_delay", "wait_first", "drain"}
        \/ (pc = "done" /\ outcome \in {"EmptyTimeout", "Settled", "PartialTimeout"}))
        => IF args.char_delay > 0
           THEN /\ wire = [i \in 1..args.n |-> 1]
                /\ flushes = args.n
                /\ paceSleeps = args.n
                /\ paceSleeps >= args.n - 1
           ELSE /\ wire = <<args.n>>
                /\ flushes = 1
                /\ paceSleeps = 0

\* C18: with char_delay 0 the payload goes to the transport in one ser.write of
\* all its bytes followed by one ser.flush, with no pacing sleep; with a
\* positive char_delay it goes one byte per ser.write, in payload order, each
\* write followed by a flush and a sleep, so that n bytes make n writes, n
\* flushes and n sleeps (n - 1 at least) before the framing begins.
C18_Pacing ==
    /\ []C18_SentState
    /\ [][(pc = "write" /\ args.char_delay > 0 /\ wire' # wire)
              => /\ wire' = Append(wire, 1)
                 /\ sent' = sent + 1
                 /\ pc' = "write"
                       => (flushes' = flushes + 1 /\ paceSleeps' = paceSleeps + 1)]_vars
    /\ [][(pc = "write" /\ ~(args.char_delay > 0) /\ wire' # wire)
              => (wire = <<>> /\ wire' = <<args.n>> /\ pc' # "write")]_vars

C18_Witness ==
    /\ pc = "initial_delay"
    /\ args.char_delay > 0
    /\ args.n > 1
    /\ Len(wire) = args.n
    /\ paceSleeps = args.n

\* C19: initialize_port keeps at most one open handle per port when two
\* callers run it at once on the same port: the two do not both succeed, and
\* every open handle is the registry's entry of a port (or is held by a caller
\* that is about to store it).
C19_SingleOpenPerPort ==
    /\ \A h \in openHandles :
          \/ \E p \in Ports : connections[p] = h
          \/ \E c \in Callers : openers[c].at = "constructed" /\ openers[c].ser = h
    /\ \A c1, c2 \in Callers :
          (/\ c1 # c2
           /\ openers[c1].at = "returned" /\ openers[c1].success
           /\ openers[c2].at \in {"constructed", "returned"}
           /\ openers[c2].port = openers[c1].port)
              => (openers[c2].at = "returned" /\ ~openers[c2].success)

\* The bytes the device has delivered on the port's handle, in order.
Stream(p) == [i \in 1..(nextByte[p] - 1) |-> i]

\* The bytes the call in flight has taken from the port and not yet returned.
Taken(p) == IF pc # "idle" /\ args.port = p THEN data ELSE <<>>

\* The port an operation is given.
Touched ==
    IF pc # "idle" THEN args.port
    ELSE IF pc' # "idle" THEN args'.port
    ELSE last'.port

\* What holds of the bytes of every open handle at every moment.
C20_StreamState ==
    /\ \A p \in Ports :
          is_port_open(p) => returned[p] \o Taken(p) \o inbuf[p] = Stream(p)
    /\ (pc = "done" /\ ret.success) => ret.response = data
    /\ (pc = "done" /\ outcome \in {"NotOpen", "WriteError", "EmptyTimeout"})
          => /\ ret.response = <<>>
             /\ data = <<>>
             /\ trace.reads = <<>>
             /\ inbuf[Port] = Inbound

\* C20: on every open handle, what the calls have returned so far, followed
\* by what the call in flight has read and by what still waits in the input
\* buffer, is the stream of bytes the device delivered, in order: nothing is
\* lost, doubled or reordered, and the outputs returned so far are a prefix of
\* the stream.  A call that ends by "not open", a write failure or the timeout
\* before the first byte has read nothing.  An operation given one port (all
\* but close_all_ports) leaves every other port's entry, handle and bytes as
\* they were.  (It holds as long as no poll or read raises: under Spec.)
C20_PureAccumulation ==
    /\ []C20_StreamState
    /\ [][~(pc = "idle" /\ pc' = "idle" /\ last'.op = "close_all_ports")
             => \A q \in Ports \ {Touched} :
                   /\ connections'[q] = connections[q]
                   /\ is_port_open(q)' = is_port_open(q)
                   /\ inbuf'[q] = inbuf[q]
                   /\ nextByte'[q] = nextByte[q]
                   /\ returned'[q] = returned[q]]_vars
====
